---- MODULE Spec2Model ----
(***************************************************************************)
(* Model of the location tracker: the Flask ingest service (src/server.py) *)
(* and the map viewer (src/map_viewer.py).                                 *)
(*                                                                         *)
(* The service keeps the global list recent_locations, mirrors it to       *)
(* LOCATION_FILE and serves it from several threads (threaded=True).  The  *)
(* code takes no lock, so every handler is modelled at the granularity of  *)
(* the reads and writes of the shared global, of the list objects it was   *)
(* bound to, and of the file.                                              *)
(***************************************************************************)
EXTENDS Naturals, Integers, Sequences, FiniteSets, TLC

(***************************************************************************)
(* Bounds of the model.                                                    *)
(***************************************************************************)
\* src/server.py:23 sets max_locations = 1000; the model scales the cap down.
max_locations == 2
\* Number of POST /location requests that pass validation in one behaviour.
MaxSubmits == 2
\* Request-handling threads of the threaded Flask server.
NumHandlers == 2

(***************************************************************************)
(* Threads.  0 is the periodic_cleanup thread, 1..NumHandlers handle       *)
(* requests, the remaining ones are threading.Thread(target=save_locations)*)
(* one for each submit that can start one.                                 *)
(***************************************************************************)
TimerThread == 0
Handlers == 1 .. NumHandlers
Workers == (NumHandlers + 1) .. (NumHandlers + MaxSubmits)
Threads == {TimerThread} \cup Handlers \cup Workers

(***************************************************************************)
(* JSON values are kept as their JSON text.  A fix (a dict) is a function  *)
(* from its keys to the text of their values.                              *)
(***************************************************************************)
NumberTexts == {"13.08", "13.09", "5.0"}
IsNumber(v) == v \in NumberTexts

required_fields == <<"latitude", "longitude", "timestamp">>

\* Request bodies a client can post (request.get_json()).
EmptyBody == [k \in {} |-> ""]
Bodies ==
    { [latitude |-> "13.08", longitude |-> "13.09", timestamp |-> "t1", accuracy |-> "5.0"],
      [latitude |-> "13.09", longitude |-> "13.08", timestamp |-> "t2"],
      [latitude |-> "\"north\"", longitude |-> "13.09", timestamp |-> "t1"],
      [longitude |-> "13.09", timestamp |-> "t1", accuracy |-> "5.0"],
      [latitude |-> "13.08", timestamp |-> "t1"],
      [latitude |-> "13.08", longitude |-> "13.09"],
      EmptyBody }

\* datetime.now().isoformat(): the text of the clock reading.
IsoFormat(n) == ToString(n)

\* location_data['server_timestamp'] = ... on the request's dict.
Stamp(body, now) ==
    [k \in (DOMAIN body) \cup {"server_timestamp"} |->
        IF k = "server_timestamp" THEN IsoFormat(now) ELSE body[k]]

\* Variant of MissingFields that does not look for the timestamp.
MissingFields_no_timestamp(body) ==
    {i \in 1 .. 2 : required_fields[i] \notin DOMAIN body}

\* The validation of receive_location: "400" with the reason, or "ok".
MissingFields(body) ==
    {i \in 1 .. Len(required_fields) : required_fields[i] \notin DOMAIN body}

Validate(body) ==
    IF DOMAIN body = {} THEN "no_data"
    ELSE IF MissingFields(body) # {} THEN "missing_field"
    ELSE "ok"

\* recent_locations[-max_locations:]
LastN(s, n) ==
    IF Len(s) <= n THEN s ELSE SubSeq(s, Len(s) - n + 1, Len(s))

\* Variant of Truncate that keeps the oldest fixes: recent_locations[:max_locations]
Truncate_keep_oldest(s) ==
    IF Len(s) <= max_locations THEN s ELSE SubSeq(s, 1, max_locations)

Truncate(s) == LastN(s, max_locations)

(***************************************************************************)
(* The file.  Its content is a sequence of tokens: "[" , one object per    *)
(* fix with its members in key order, "]".  A writer that opened the file  *)
(* with mode 'w' truncated it; its buffered text reaches the file at       *)
(* offset 0 when the file is closed, over whatever is there by then.       *)
(***************************************************************************)
KeyOrder == <<"latitude", "longitude", "timestamp", "accuracy", "server_timestamp">>

RECURSIVE MembersFrom(_, _)
MembersFrom(fix, i) ==
    IF i > Len(KeyOrder) THEN <<>>
    ELSE IF KeyOrder[i] \in DOMAIN fix
         THEN <<(<<KeyOrder[i], fix[KeyOrder[i]]>>)>> \o MembersFrom(fix, i + 1)
         ELSE MembersFrom(fix, i + 1)

\* Variant of Members that writes the members in key order up to the
\* timestamp only, leaving out accuracy and server_timestamp.
Members_required_only(fix) ==
    SelectSeq(MembersFrom(fix, 1),
              LAMBDA m : m[1] \in {"latitude", "longitude", "timestamp"})

Members(fix) == MembersFrom(fix, 1)

TokOpen == [t |-> "[", members |-> <<>>]
TokClose == [t |-> "]", members |-> <<>>]
TokObj(fix) == [t |-> "{}", members |-> Members(fix)]

\* json.dump(recent_locations, f, indent=2)
Serialize(list) ==
    <<TokOpen>> \o [i \in 1 .. Len(list) |-> TokObj(list[i])] \o <<TokClose>>

\* The dict json.load builds from the members of one object.
FromMembers(ms) ==
    [k \in {ms[i][1] : i \in 1 .. Len(ms)} |->
        ms[CHOOSE i \in 1 .. Len(ms) :
              /\ ms[i][1] = k
              /\ \A j \in 1 .. Len(ms) : ms[j][1] = k => j <= i][2]]

\* Whether json.load accepts the text (otherwise JSONDecodeError).
Parses(toks) ==
    /\ Len(toks) >= 2
    /\ toks[1] = TokOpen
    /\ toks[Len(toks)] = TokClose
    /\ \A i \in 2 .. (Len(toks) - 1) : toks[i].t = "{}"

\* json.load(f) of a text that parses.
Parse(toks) == [i \in 1 .. (Len(toks) - 2) |-> FromMembers(toks[i + 1].members)]

\* The file after a writer flushes its text at offset 0.
Overlay(old, text) ==
    IF Len(old) <= Len(text) THEN text
    ELSE text \o SubSeq(old, Len(text) + 1, Len(old))

NoFile == [exists |-> FALSE, data |-> <<>>]
FileOf(toks) == [exists |-> TRUE, data |-> toks]

\* Fixes an earlier run of the service left in the file.
OldFix(i) ==
    [latitude |-> "13.08", longitude |-> "13.09",
     timestamp |-> IF i % 2 = 1 THEN "t1" ELSE "t2",
     server_timestamp |-> "old" \o ToString(i)]

OldList(n) == [i \in 1 .. n |-> OldFix(i)]

\* What LOCATION_FILE can be when the service starts.
InitFiles ==
    {NoFile, FileOf(<<TokOpen>>)}
        \cup {FileOf(Serialize(OldList(n))) : n \in {0, max_locations, max_locations + 1}}

\* load_locations(): the list the service starts with.
load_locations(f) ==
    IF f.exists
    THEN IF Parses(f.data) THEN Parse(f.data) ELSE <<>>
    ELSE <<>>


(***************************************************************************)
(* State.                                                                  *)
(***************************************************************************)
VARIABLES
    recent_locations,   \* the list the global recent_locations is bound to
    file,               \* LOCATION_FILE: whether it exists, and its text
    disk_ok,            \* whether open(LOCATION_FILE, 'w') succeeds
    clock,              \* number of readings of datetime.now() by submits
    pc,                 \* per thread: where it is in its code
    loc,                \* per handler: location_data of the request
    ref,                \* per handler: the list object it loaded for append
    tmp,                \* per thread: the slice built by cleanup_old_locations
    buf,                \* per thread: text written to its open file handle
    ret,                \* per thread: where the function in progress returns to
    resp,               \* per handler: the last response it sent
    hist                \* history of the run, read by the properties only

server_vars ==
    <<recent_locations, file, disk_ok, clock, pc, loc, ref, tmp, buf, ret, resp, hist>>

NoResp == [op |-> "none", code |-> 0, total |-> 0, locations |-> <<>>, time |-> "None"]
Response(op, code, total, locations, time) ==
    [op |-> op, code |-> code, total |-> total, locations |-> locations, time |-> time]

NoLoc == EmptyBody

\* The history of the run since the service started or was last cleared:
\*   order    the list at that point, then the fixes in the order of append
\*   nbase    the length of the list at that point
\*   acked    the fixes whose submit answered 200
\*   exempt   the fixes whose submit was under way when the store was cleared
\*   failed   whether a submit answered 500
\*   cleared  whether a clear has returned and nothing was appended since
\*   before   the length of the list when the last valid submit arrived
\*   fresh    the fix of the last submit, if it answered 200 and no submit
\*            or clear arrived since (NoLoc otherwise)
\*   fired    whether the periodic thread woke up while no background
\*            save_locations thread was started or under way, and no
\*            submit or clear arrived since
HistInit(list) ==
    [order |-> list, nbase |-> Len(list), acked |-> {}, exempt |-> {},
     failed |-> FALSE, cleared |-> FALSE, before |-> 0, fresh |-> NoLoc,
     fired |-> FALSE]

ServerInit ==
    /\ file \in InitFiles
    /\ recent_locations = load_locations(file)
    /\ disk_ok = TRUE
    /\ clock = 0
    /\ pc = [t \in Threads |-> "idle"]
    /\ loc = [t \in Threads |-> NoLoc]
    /\ ref = [t \in Threads |-> "none"]
    /\ tmp = [t \in Threads |-> <<>>]
    /\ buf = [t \in Threads |-> <<>>]
    /\ ret = [t \in Threads |-> "idle"]
    /\ resp = [t \in Threads |-> NoResp]
    /\ hist = HistInit(load_locations(file))

\* Handlers that are between stamping a fix and answering.
InSubmit(t) == loc[t] # NoLoc

\* A thread rebinding the global leaves the other threads' loaded list behind.
Rebound(r, t) == [u \in Threads |-> IF u # t /\ r[u] = "live" THEN "stale" ELSE r[u]]

(***************************************************************************)
(* POST /location: receive_location                                        *)
(***************************************************************************)
\* Lines 62-71: the body is missing or lacks a required field: 400.
RL_Reject(t, body) ==
    /\ t \in Handlers /\ pc[t] = "idle"
    /\ Validate(body) # "ok"
    /\ resp' = [resp EXCEPT ![t] = Response("submit", 400, 0, <<body>>, "None")]
    /\ pc' = [pc EXCEPT ![t] = "done"]
    /\ UNCHANGED <<recent_locations, file, disk_ok, clock, loc, ref, tmp, buf, ret, hist>>

\* Lines 62-74: the body is valid; it is stamped with the server time.
RL_Accept(t, body) ==
    /\ t \in Handlers /\ pc[t] = "idle"
    /\ Validate(body) = "ok"
    /\ clock < MaxSubmits
    /\ clock' = clock + 1
    /\ loc' = [loc EXCEPT ![t] = Stamp(body, clock + 1)]
    /\ pc' = [pc EXCEPT ![t] = "rl_load"]
    /\ hist' = [hist EXCEPT !.before = Len(recent_locations), !.fresh = NoLoc,
                             !.fired = FALSE]
    /\ UNCHANGED <<recent_locations, file, disk_ok, ref, tmp, buf, ret, resp>>

\* Line 77, first half: the global is read to find the list to append to.
RL_Load(t) ==
    /\ pc[t] = "rl_load"
    /\ ref' = [ref EXCEPT ![t] = "live"]
    /\ pc' = [pc EXCEPT ![t] = "rl_append"]
    /\ UNCHANGED <<recent_locations, file, disk_ok, clock, loc, tmp, buf, ret, resp, hist>>

\* Variant of RL_Append that puts the fix at the front: list.insert(0, ...)
RL_Append_front(t) ==
    /\ pc[t] = "rl_append"
    /\ recent_locations' =
         IF ref[t] = "live" THEN <<loc[t]>> \o recent_locations ELSE recent_locations
    /\ ref' = [ref EXCEPT ![t] = "none"]
    /\ hist' = [hist EXCEPT !.order = Append(@, loc[t]), !.cleared = FALSE]
    /\ pc' = [pc EXCEPT ![t] = "co_check"]
    /\ ret' = [ret EXCEPT ![t] = "rl_spawn"]
    /\ UNCHANGED <<file, disk_ok, clock, loc, tmp, buf, resp>>

\* Line 77, second half: list.append on the list that was loaded.  Line 80
\* calls cleanup_old_locations, which returns to line 83.
RL_Append(t) ==
    /\ pc[t] = "rl_append"
    /\ recent_locations' =
         IF ref[t] = "live" THEN Append(recent_locations, loc[t]) ELSE recent_locations
    /\ ref' = [ref EXCEPT ![t] = "none"]
    /\ hist' = [hist EXCEPT !.order = Append(@, loc[t]), !.cleared = FALSE]
    /\ pc' = [pc EXCEPT ![t] = "co_check"]
    /\ ret' = [ret EXCEPT ![t] = "rl_spawn"]
    /\ UNCHANGED <<file, disk_ok, clock, loc, tmp, buf, resp>>

\* Line 83: threading.Thread(target=save_locations).start()
RL_Spawn(t) ==
    /\ pc[t] = "rl_spawn"
    /\ \E w \in Workers :
         /\ pc[w] = "idle"
         /\ \A v \in Workers : pc[v] = "idle" => w <= v
         /\ pc' = [pc EXCEPT ![t] = "rl_log", ![w] = "sl_open"]
         /\ ret' = [ret EXCEPT ![w] = "idle"]
    /\ UNCHANGED <<recent_locations, file, disk_ok, clock, loc, ref, tmp, buf, resp, hist>>

\* Lines 86-93: the log line formats latitude and longitude as floats, then
\* the handler answers 200 with the length of the list.  Line 95-97: a value
\* that is not a number makes the format raise, and the handler answers 500.
RL_Respond(t) ==
    /\ pc[t] = "rl_log"
    /\ IF IsNumber(loc[t]["latitude"]) /\ IsNumber(loc[t]["longitude"])
       THEN /\ resp' = [resp EXCEPT ![t] =
                   Response("submit", 200, Len(recent_locations), <<loc[t]>>, "None")]
            /\ hist' = IF loc[t] \in hist.exempt THEN hist
                       ELSE [hist EXCEPT !.acked = @ \cup {loc[t]}, !.fresh = loc[t]]
       ELSE /\ resp' = [resp EXCEPT ![t] = Response("submit", 500, 0, <<loc[t]>>, "None")]
            /\ hist' = [hist EXCEPT !.failed = TRUE]
    /\ loc' = [loc EXCEPT ![t] = NoLoc]
    /\ pc' = [pc EXCEPT ![t] = "done"]
    /\ UNCHANGED <<recent_locations, file, disk_ok, clock, ref, tmp, buf, ret>>

(***************************************************************************)
(* cleanup_old_locations, run by a submit and by the periodic thread       *)
(***************************************************************************)
\* Variant of CO_Check that lets one fix more through:
\* if len(recent_locations) > max_locations + 1
CO_Check_off_by_one(t) ==
    /\ pc[t] = "co_check"
    /\ pc' = [pc EXCEPT ![t] =
                IF Len(recent_locations) > max_locations + 1 THEN "co_slice" ELSE ret[t]]
    /\ UNCHANGED <<recent_locations, file, disk_ok, clock, loc, ref, tmp, buf, ret, resp, hist>>

\* Line 48: if len(recent_locations) > max_locations
CO_Check(t) ==
    /\ pc[t] = "co_check"
    /\ pc' = [pc EXCEPT ![t] =
                IF Len(recent_locations) > max_locations THEN "co_slice" ELSE ret[t]]
    /\ UNCHANGED <<recent_locations, file, disk_ok, clock, loc, ref, tmp, buf, ret, resp, hist>>

\* Line 49, right-hand side: recent_locations[-max_locations:] is a new list.
CO_Slice(t) ==
    /\ pc[t] = "co_slice"
    /\ tmp' = [tmp EXCEPT ![t] = Truncate(recent_locations)]
    /\ pc' = [pc EXCEPT ![t] = "co_store"]
    /\ UNCHANGED <<recent_locations, file, disk_ok, clock, loc, ref, buf, ret, resp, hist>>

\* Line 49, assignment: the global is bound to the new list.  Line 50 calls
\* save_locations.
CO_Store(t) ==
    /\ pc[t] = "co_store"
    /\ recent_locations' = tmp[t]
    /\ tmp' = [tmp EXCEPT ![t] = <<>>]
    /\ ref' = Rebound(ref, t)
    /\ pc' = [pc EXCEPT ![t] = "sl_open"]
    /\ UNCHANGED <<file, disk_ok, clock, loc, buf, ret, resp, hist>>

(***************************************************************************)
(* save_locations                                                          *)
(***************************************************************************)
\* Variant of SL_Open without the except clause of line 42: the IOError
\* reaches the caller, and a request handler answers 500.
SL_Open_raises(t) ==
    /\ pc[t] = "sl_open"
    /\ IF disk_ok
       THEN /\ file' = FileOf(<<>>)
            /\ pc' = [pc EXCEPT ![t] = "sl_dump"]
            /\ UNCHANGED <<loc, resp>>
       ELSE /\ file' = file
            /\ IF t \in Handlers
               THEN /\ resp' = [resp EXCEPT ![t] =
                          Response(IF ret[t] = "cl_return" THEN "clear" ELSE "submit",
                                   500, 0, <<loc[t]>>, "None")]
                    /\ loc' = [loc EXCEPT ![t] = NoLoc]
                    /\ pc' = [pc EXCEPT ![t] = "done"]
               ELSE /\ pc' = [pc EXCEPT ![t] = "idle"]
                    /\ UNCHANGED <<loc, resp>>
    /\ UNCHANGED <<recent_locations, disk_ok, clock, ref, tmp, buf, ret, hist>>

\* Line 40: open(LOCATION_FILE, 'w') creates or truncates the file; an
\* IOError is caught at line 42 and the function returns.
SL_Open(t) ==
    /\ pc[t] = "sl_open"
    /\ IF disk_ok
       THEN /\ file' = FileOf(<<>>)
            /\ pc' = [pc EXCEPT ![t] = "sl_dump"]
       ELSE /\ file' = file
            /\ pc' = [pc EXCEPT ![t] = ret[t]]
    /\ UNCHANGED <<recent_locations, disk_ok, clock, loc, ref, tmp, buf, ret, resp, hist>>

\* Line 41: json.dump of the list the global is bound to at that moment; the
\* text stays in the handle's buffer.
SL_Dump(t) ==
    /\ pc[t] = "sl_dump"
    /\ buf' = [buf EXCEPT ![t] = Serialize(recent_locations)]
    /\ pc' = [pc EXCEPT ![t] = "sl_close"]
    /\ UNCHANGED <<recent_locations, file, disk_ok, clock, loc, ref, tmp, ret, resp, hist>>

\* End of the with block: the buffer is flushed at offset 0 and the file
\* closed; a flush that fails raises the IOError caught at line 42.
SL_Close(t) ==
    /\ pc[t] = "sl_close"
    /\ file' = IF disk_ok THEN FileOf(Overlay(file.data, buf[t])) ELSE file
    /\ buf' = [buf EXCEPT ![t] = <<>>]
    /\ pc' = [pc EXCEPT ![t] = ret[t]]
    /\ UNCHANGED <<recent_locations, disk_ok, clock, loc, ref, tmp, ret, resp, hist>>


(***************************************************************************)
(* POST /locations/clear: clear_locations                                  *)
(***************************************************************************)
\* Line 126: the global is bound to a new empty list.  Line 127 calls
\* save_locations.
CL_Store(t) ==
    /\ t \in Handlers /\ pc[t] = "idle"
    /\ recent_locations' = <<>>
    /\ ref' = Rebound(ref, t)
    /\ hist' = [order |-> <<>>, nbase |-> 0, acked |-> {},
                exempt |-> {loc[h] : h \in {u \in Handlers : InSubmit(u)}},
                failed |-> FALSE, cleared |-> FALSE, before |-> 0, fresh |-> NoLoc,
                fired |-> FALSE]
    /\ pc' = [pc EXCEPT ![t] = "sl_open"]
    /\ ret' = [ret EXCEPT ![t] = "cl_return"]
    /\ UNCHANGED <<file, disk_ok, clock, loc, tmp, buf, resp>>

\* Lines 128-131: the answer.
CL_Return(t) ==
    /\ pc[t] = "cl_return"
    /\ resp' = [resp EXCEPT ![t] = Response("clear", 200, 0, <<>>, "None")]
    /\ hist' = [hist EXCEPT !.cleared = (hist.order = <<>>)]
    /\ pc' = [pc EXCEPT ![t] = "done"]
    /\ UNCHANGED <<recent_locations, file, disk_ok, clock, loc, ref, tmp, buf, ret>>

(***************************************************************************)
(* GET /locations: get_locations                                           *)
(***************************************************************************)
\* Line 104: 'locations': recent_locations
GL_List(t) ==
    /\ t \in Handlers /\ pc[t] = "idle"
    /\ resp' = [resp EXCEPT ![t] = Response("list", 0, 0, recent_locations, "None")]
    /\ pc' = [pc EXCEPT ![t] = "gl_count"]
    /\ UNCHANGED <<recent_locations, file, disk_ok, clock, loc, ref, tmp, buf, ret, hist>>

\* Line 105: 'total_count': len(recent_locations)
GL_Count(t) ==
    /\ pc[t] = "gl_count"
    /\ resp' = [resp EXCEPT ![t] =
                  Response("list", 200, Len(recent_locations), resp[t].locations, "None")]
    /\ pc' = [pc EXCEPT ![t] = "done"]
    /\ UNCHANGED <<recent_locations, file, disk_ok, clock, loc, ref, tmp, buf, ret, hist>>

(***************************************************************************)
(* GET /locations/latest: get_latest_location                              *)
(***************************************************************************)
\* Line 111: if recent_locations; lines 116-120: 404 when it is empty.
LA_Check(t) ==
    /\ t \in Handlers /\ pc[t] = "idle"
    /\ IF recent_locations # <<>>
       THEN /\ resp' = resp
            /\ pc' = [pc EXCEPT ![t] = "la_index"]
       ELSE /\ resp' = [resp EXCEPT ![t] = Response("latest", 404, 0, <<>>, "None")]
            /\ pc' = [pc EXCEPT ![t] = "done"]
    /\ UNCHANGED <<recent_locations, file, disk_ok, clock, loc, ref, tmp, buf, ret, hist>>

\* Variant of LA_Index that answers the oldest fix: recent_locations[0]
LA_Index_first(t) ==
    /\ pc[t] = "la_index"
    /\ resp' = [resp EXCEPT ![t] =
                  IF recent_locations # <<>>
                  THEN Response("latest", 200, 0, <<recent_locations[1]>>, "None")
                  ELSE Response("latest", 500, 0, <<>>, "None")]
    /\ pc' = [pc EXCEPT ![t] = "done"]
    /\ UNCHANGED <<recent_locations, file, disk_ok, clock, loc, ref, tmp, buf, ret, hist>>

\* Line 114: recent_locations[-1]; on a list emptied in between the index
\* raises and Flask answers 500.
LA_Index(t) ==
    /\ pc[t] = "la_index"
    /\ resp' = [resp EXCEPT ![t] =
                  IF recent_locations # <<>>
                  THEN Response("latest", 200, 0,
                                <<recent_locations[Len(recent_locations)]>>, "None")
                  ELSE Response("latest", 500, 0, <<>>, "None")]
    /\ pc' = [pc EXCEPT ![t] = "done"]
    /\ UNCHANGED <<recent_locations, file, disk_ok, clock, loc, ref, tmp, buf, ret, hist>>

(***************************************************************************)
(* GET /status: server_status                                              *)
(***************************************************************************)
\* Line 138: 'total_locations': len(recent_locations)
ST_Count(t) ==
    /\ t \in Handlers /\ pc[t] = "idle"
    /\ resp' = [resp EXCEPT ![t] = Response("status", 0, Len(recent_locations), <<>>, "None")]
    /\ pc' = [pc EXCEPT ![t] = "st_time"]
    /\ UNCHANGED <<recent_locations, file, disk_ok, clock, loc, ref, tmp, buf, ret, hist>>

\* Variant of ST_Time that reports the server's stamp of the latest fix:
\* recent_locations[-1]['server_timestamp']
ST_Time_server_stamp(t) ==
    /\ pc[t] = "st_time"
    /\ resp' = [resp EXCEPT ![t] =
                  Response("status", 200, resp[t].total, <<>>,
                           IF recent_locations # <<>>
                           THEN recent_locations[Len(recent_locations)]["server_timestamp"]
                           ELSE "None")]
    /\ pc' = [pc EXCEPT ![t] = "done"]
    /\ UNCHANGED <<recent_locations, file, disk_ok, clock, loc, ref, tmp, buf, ret, hist>>

\* Line 139: recent_locations[-1]['timestamp'] if recent_locations else None
ST_Time(t) ==
    /\ pc[t] = "st_time"
    /\ resp' = [resp EXCEPT ![t] =
                  Response("status", 200, resp[t].total, <<>>,
                           IF recent_locations # <<>>
                           THEN recent_locations[Len(recent_locations)]["timestamp"]
                           ELSE "None")]
    /\ pc' = [pc EXCEPT ![t] = "done"]
    /\ UNCHANGED <<recent_locations, file, disk_ok, clock, loc, ref, tmp, buf, ret, hist>>

\* The response has been sent; the thread is free for the next request.
Done(t) ==
    /\ pc[t] = "done"
    /\ resp' = [resp EXCEPT ![t] = NoResp]
    /\ pc' = [pc EXCEPT ![t] = "idle"]
    /\ UNCHANGED <<recent_locations, file, disk_ok, clock, loc, ref, tmp, buf, ret, hist>>

(***************************************************************************)
(* periodic_cleanup                                                        *)
(***************************************************************************)
\* Lines 160-162: the sleep ends and cleanup_old_locations is called; line 48
\* is its first read of the shared list.
PC_Wake(t) ==
    /\ t = TimerThread /\ pc[t] = "idle"
    /\ pc' = [pc EXCEPT ![t] =
                IF Len(recent_locations) > max_locations THEN "co_slice" ELSE "idle"]
    /\ ret' = [ret EXCEPT ![t] = "idle"]
    /\ hist' = [hist EXCEPT !.fired = (\A w \in Workers : pc[w] = "idle")]
    /\ UNCHANGED <<recent_locations, file, disk_ok, clock, loc, ref, tmp, buf, resp>>

(***************************************************************************)
(* The environment: the disk stops accepting writes.                       *)
(***************************************************************************)
DiskFails ==
    /\ disk_ok
    /\ disk_ok' = FALSE
    /\ UNCHANGED <<recent_locations, file, clock, pc, loc, ref, tmp, buf, ret, resp, hist>>

(***************************************************************************)
(* The service.                                                            *)
(***************************************************************************)
\* The steps of the handlers that change the store, and of the functions they
\* share with the threads that clean it up and save it.
WriteStep(t, bodies) ==
    \/ \E body \in bodies : RL_Reject(t, body)
    \/ \E body \in bodies : RL_Accept(t, body)
    \/ RL_Load(t)
    \/ RL_Append(t)
    \/ RL_Spawn(t)
    \/ RL_Respond(t)
    \/ CO_Check(t)
    \/ CO_Slice(t)
    \/ CO_Store(t)
    \/ SL_Open(t)
    \/ SL_Dump(t)
    \/ SL_Close(t)
    \/ CL_Store(t)
    \/ CL_Return(t)
    \/ Done(t)

\* The steps of the handlers that only read the store.
ReadStep(t) ==
    \/ GL_List(t)
    \/ GL_Count(t)
    \/ LA_Check(t)
    \/ LA_Index(t)
    \/ ST_Count(t)
    \/ ST_Time(t)

Step(t, bodies) == WriteStep(t, bodies) \/ ReadStep(t) \/ PC_Wake(t)

(***************************************************************************)
(* The viewer (src/map_viewer.py): one LocationMapViewer, single-threaded. *)
(***************************************************************************)
VARIABLES
    vpc,                    \* where the viewer is in its code
    vret,                   \* which call of generate_map is in progress
    auto_open,              \* whether the map is to be opened in the browser
    last_location_count,    \* self.last_location_count
    tick_locations,         \* live_tracking's local variable locations
    gm_locations,           \* generate_map's local variable locations
    status_code,            \* response.status_code of the request just made
    output_file,            \* the document at self.output_file
    opened                  \* whether webbrowser.open was called

viewer_vars ==
    <<vpc, vret, auto_open, last_location_count, tick_locations, gm_locations,
      status_code, output_file, opened>>

\* Optional[List[Dict]]
None == [none |-> TRUE, list |-> <<>>]
Some(list) == [none |-> FALSE, list |-> list]

\* Variant of FixIcon whose test for the last fix is off by one:
\* elif i == len(locations)
FixIcon_last_off_by_one(i, n) ==
    IF i = 0 THEN [color |-> "green", icon |-> "play"]
    ELSE IF i = n THEN [color |-> "red", icon |-> "stop"]
    ELSE [color |-> "blue", icon |-> "record"]

\* Lines 113-125: the icon of the fix at index i (from 0) among n fixes.
FixIcon(i, n) ==
    IF i = 0 THEN [color |-> "green", icon |-> "play"]
    ELSE IF i = n - 1 THEN [color |-> "red", icon |-> "stop"]
    ELSE [color |-> "blue", icon |-> "record"]

\* create_map: the path line, the markers in the order they are added, and
\* the number of points the summary shows (-1 without summary).
create_map(locations) ==
    IF locations = <<>>
    THEN [polyline |-> FALSE,
          markers |-> <<[color |-> "red", icon |-> "info-sign"]>>,
          total_points |-> -1]
    ELSE [polyline |-> Len(locations) > 1,
          markers |-> [i \in 1 .. Len(locations) |-> FixIcon(i - 1, Len(locations))]
                        \o <<[color |-> "darkgreen", icon |-> "info-sign"]>>,
          total_points |-> Len(locations)]

NoDocument == [written |-> FALSE, polyline |-> FALSE, markers |-> <<>>, total_points |-> -1]
Document(m) ==
    [written |-> TRUE, polyline |-> m.polyline, markers |-> m.markers,
     total_points |-> m.total_points]

\* The fix markers of a document: those with the icon of a fix.
FixMarkers(d) ==
    {i \in 1 .. Len(d.markers) : d.markers[i].icon \in {"play", "stop", "record"}}

ViewerInit ==
    /\ vpc = "off"
    /\ vret = "none"
    /\ auto_open = FALSE
    /\ last_location_count = 0
    /\ tick_locations = None
    /\ gm_locations = None
    /\ status_code = 0
    /\ output_file = NoDocument
    /\ opened = FALSE

\* get_locations_from_file on the file as it is now.
get_locations_from_file(f) ==
    IF f.exists /\ Parses(f.data) THEN Some(Parse(f.data)) ELSE None

\* Line 188: if locations and len(locations) != self.last_location_count
UpdateDetected(locations) ==
    /\ ~locations.none
    /\ locations.list # <<>>
    /\ Len(locations.list) # last_location_count

\* main, lines 215-234: the viewer is built and run in the mode asked for;
\* both modes start by calling generate_map.
V_Main(mode, open) ==
    /\ vpc = "off"
    /\ auto_open' = open
    /\ vret' = mode
    /\ vpc' = "gm_server"
    /\ UNCHANGED <<last_location_count, tick_locations, gm_locations, status_code,
                   output_file, opened>>

\* The caller's code after generate_map returned ok: main lines 223-228,
\* live_tracking lines 180-181 and line 191.
\* The local variables of both functions are dead once they return.
AfterGenerate(ok) ==
    /\ opened' = (opened \/ (vret \in {"once", "live"} /\ ok /\ auto_open))
    /\ last_location_count' =
          IF vret = "tick" THEN Len(tick_locations.list) ELSE last_location_count
    /\ vpc' = IF vret = "once" THEN "exit" ELSE "sleep"
    /\ vret' = "none"
    /\ tick_locations' = None
    /\ gm_locations' = None
    /\ status_code' = 0

\* Status of a request that was not answered with 200 (503, or no answer).
Unavailable == 503

\* Variant of V_GenServer that takes an empty answer for no answer:
\* if not locations instead of if locations is None
V_GenServer_falsy(up) ==
    /\ vpc = "gm_server"
    /\ status_code' = IF up THEN 200 ELSE Unavailable
    /\ gm_locations' = IF up /\ recent_locations # <<>> THEN Some(recent_locations) ELSE None
    /\ vpc' = IF up /\ recent_locations # <<>> THEN "gm_save" ELSE "gm_file"
    /\ UNCHANGED <<vret, auto_open, last_location_count, tick_locations, output_file, opened>>

\* generate_map, line 158, get_locations_from_server: the GET /locations
\* request; up says whether it is answered with status 200.
V_GenServer(up) ==
    /\ vpc = "gm_server"
    /\ status_code' = IF up THEN 200 ELSE Unavailable
    /\ gm_locations' = IF up THEN Some(recent_locations) ELSE None
    /\ vpc' = IF up THEN "gm_save" ELSE "gm_file"
    /\ UNCHANGED <<vret, auto_open, last_location_count, tick_locations, output_file, opened>>

\* generate_map, line 158, get_locations_from_file, and lines 159-161.
V_GenFile ==
    /\ vpc = "gm_file"
    /\ IF get_locations_from_file(file).none
       THEN AfterGenerate(FALSE)
       ELSE /\ gm_locations' = get_locations_from_file(file)
            /\ vpc' = "gm_save"
            /\ UNCHANGED <<vret, last_location_count, opened, tick_locations, status_code>>
    /\ UNCHANGED <<auto_open, output_file>>

\* generate_map, lines 166-172: the map is created and saved.
V_GenSave ==
    /\ vpc = "gm_save"
    /\ output_file' = Document(create_map(gm_locations.list))
    /\ AfterGenerate(TRUE)
    /\ UNCHANGED auto_open

\* live_tracking, lines 185-193: the sleep ends, the server is asked, and if
\* it answered the count is compared.
V_TickServer(up) ==
    /\ vpc = "sleep"
    /\ IF ~up
       THEN /\ vpc' = "tk_file" /\ vret' = vret /\ tick_locations' = None
            /\ status_code' = Unavailable
       ELSE IF UpdateDetected(Some(recent_locations))
            THEN /\ vpc' = "gm_server" /\ vret' = "tick"
                 /\ tick_locations' = Some(recent_locations)
                 /\ status_code' = 200
            ELSE /\ vpc' = "sleep" /\ vret' = vret /\ tick_locations' = None
                 /\ status_code' = 0
    /\ UNCHANGED <<auto_open, last_location_count, gm_locations, output_file, opened>>

\* live_tracking, lines 187-193 when the server did not answer: the file is
\* read and the count compared.
V_TickFile ==
    /\ vpc = "tk_file"
    /\ IF UpdateDetected(get_locations_from_file(file))
       THEN /\ vpc' = "gm_server" /\ vret' = "tick"
            /\ tick_locations' = get_locations_from_file(file)
            /\ status_code' = status_code
       ELSE /\ vpc' = "sleep" /\ vret' = vret /\ tick_locations' = None
            /\ status_code' = 0
    /\ UNCHANGED <<auto_open, last_location_count, gm_locations, output_file, opened>>

ViewerStep ==
    \/ \E mode \in {"once", "live"}, open \in BOOLEAN : V_Main(mode, open)
    \/ \E up \in BOOLEAN : V_GenServer(up)
    \/ V_GenFile
    \/ V_GenSave
    \/ \E up \in BOOLEAN : V_TickServer(up)
    \/ V_TickFile

vars == <<server_vars, viewer_vars>>

Init == ServerInit /\ ViewerInit

\* Overlapping requests are studied from a store at or over the cap.
RaceInit ==
    /\ Init
    /\ Len(recent_locations) >= max_locations

\* Bodies posted where interleavings or faults are studied: one that is
\* accepted and one that lacks a field.
RaceBodies ==
    { [latitude |-> "13.08", longitude |-> "13.09", timestamp |-> "t1", accuracy |-> "5.0"],
      [longitude |-> "13.09", timestamp |-> "t1", accuracy |-> "5.0"] }

\* The handlers race on the store; the background save_locations threads are
\* started and not scheduled, and the periodic thread sleeps.
Next ==
    /\ \E t \in Handlers : WriteStep(t, RaceBodies)
    /\ UNCHANGED viewer_vars

Spec == RaceInit /\ [][Next]_vars

\* Requests handled one at a time, by one handler thread: it and the periodic
\* thread move only while the other is not under way.  The background
\* save_locations threads run alongside.
Serial(t) ==
    \/ t \in Workers
    \/ /\ t \in {TimerThread, 1}
       /\ \A u \in {TimerThread, 1} \ {t} : pc[u] \in {"idle", "done"}

NextSeq ==
    /\ \E t \in Threads : Serial(t) /\ Step(t, Bodies)
    /\ UNCHANGED viewer_vars

SeqSpec == Init /\ [][NextSeq]_vars

\* The one-at-a-time service on a disk that can stop accepting writes.
NextFault ==
    \/ /\ \E t \in Threads : Serial(t) /\ Step(t, RaceBodies)
       /\ UNCHANGED viewer_vars
    \/ DiskFails /\ UNCHANGED viewer_vars

FaultSpec == Init /\ [][NextFault]_vars

\* The service thread t runs while the others are at rest or not yet started.
Alone(t) ==
    \A u \in ({1} \cup Workers) \ {t} :
        pc[u] \in {"idle", "done"} \/ (u \in Workers /\ pc[u] = "sl_open")

\* The viewer beside a service that handles submits and clears one at a time
\* and whose threads run one at a time; the viewer reads the list and the
\* file between any two of their steps.
NextView ==
    \/ /\ \E t \in {1} \cup Workers : Alone(t) /\ WriteStep(t, RaceBodies)
       /\ UNCHANGED viewer_vars
    \/ /\ ViewerStep
       /\ UNCHANGED server_vars

\* The viewer is studied beside a service that starts without a file or with
\* a file at the cap.
ViewInit ==
    /\ Init
    /\ file \in {NoFile, FileOf(Serialize(OldList(max_locations)))}

ViewSpec == ViewInit /\ [][NextView]_vars

\* The periodic thread (a daemon thread started at line 174) beside one
\* request handler: their steps interleave freely.  The background
\* save_locations threads are started and not scheduled.
NextTimer ==
    /\ \E t \in {TimerThread, 1} : Step(t, RaceBodies)
    /\ UNCHANGED viewer_vars

TimerSpec == RaceInit /\ [][NextTimer]_vars

(***************************************************************************)
(* Properties.                                                             *)
(***************************************************************************)
Min(a, b) == IF a <= b THEN a ELSE b

Last(list) == list[Len(list)]

InStore(f) == \E i \in 1 .. Len(recent_locations) : recent_locations[i] = f

\* Position of a fix in the order of append (0: it was there before the
\* history began).
Pos(f) ==
    IF \E i \in 1 .. Len(hist.order) : hist.order[i] = f
    THEN CHOOSE i \in 1 .. Len(hist.order) : hist.order[i] = f
    ELSE 0

\* A fix that is gone was dropped by the cap as the oldest: the store is
\* full of fixes appended after it.
EvictedAsOldest(f) ==
    /\ Len(recent_locations) >= max_locations
    /\ \A i \in 1 .. Len(recent_locations) : Pos(recent_locations[i]) > Pos(f)

\* The handler thread of the one-at-a-time service has just answered.
Answered(op) == pc[1] = "done" /\ resp[1].op = op

\* The request body lacks a required field.
Lacks(body) == \E k \in {"latitude", "longitude", "timestamp"} : k \notin DOMAIN body

\* The fix is a posted body with the server's stamp of the latest reading of
\* the clock added.
StampedNow(fix) ==
    /\ "server_timestamp" \in DOMAIN fix
    /\ fix["server_timestamp"] = IsoFormat(clock)
    /\ \E body \in Bodies :
         /\ ~Lacks(body)
         /\ DOMAIN fix = (DOMAIN body) \cup {"server_timestamp"}
         /\ \A k \in DOMAIN body : fix[k] = body[k]

\* C1 (Spec): under any interleaving of submits no fix is lost: every fix
\* whose submit answered 200 since the last clear is in the store, unless the
\* cap evicted it as the oldest.
C1_NoFixLost ==
    \A f \in hist.acked : InStore(f) \/ EvictedAsOldest(f)

\* C2 (SeqSpec): after successful submits made one after another on a store
\* that started within the cap, list() answers the min(n, cap) most recently
\* accepted fixes in submission order, and that many as the count.
C2_ListKeepsNewest ==
    (Answered("list") /\ ~hist.failed /\ hist.nbase <= max_locations)
        => /\ resp[1].locations = LastN(hist.order, max_locations)
           /\ resp[1].total = Min(Len(hist.order), max_locations)
           /\ \A i \in (hist.nbase + 1) .. Len(hist.order) : hist.order[i] \in hist.acked

\* C2 witness: list() answers after the cap was exceeded and the oldest dropped.
C2_Witness ==
    /\ Answered("list") /\ ~hist.failed /\ hist.nbase <= max_locations
    /\ Len(hist.order) > max_locations
    /\ hist.acked # {}

\* C3 as stated (SeqSpec): a submit carrying the required fields increases
\* the stored count by exactly 1, in every store state.
C3_CountPlusOne ==
    (Answered("submit") /\ resp[1].code # 400)
        => Len(recent_locations) = hist.before + 1

\* C3 amended (SeqSpec): after a submit carrying the required fields the
\* stored count is the count before plus one, capped at max_locations; a
\* successful submit reports that count.
C3_CountPlusOneCapped ==
    (Answered("submit") /\ resp[1].code # 400)
        => /\ Len(recent_locations) = Min(hist.before + 1, max_locations)
           /\ resp[1].code = 200 => resp[1].total = Min(hist.before + 1, max_locations)

\* C3 witness: a submit answered 200 on a store that was at the cap.
C3_Witness ==
    /\ Answered("submit") /\ resp[1].code = 200
    /\ hist.before = max_locations
    /\ Len(recent_locations) = max_locations

\* C4 (SeqSpec): right after a successful submit the submitted fix, with its
\* server_timestamp, is the last element of the store, of what list()
\* answers, and is what latest() answers.
C4_NewFixIsLast ==
    /\ (Answered("submit") /\ resp[1].code = 200)
          => /\ hist.fresh = resp[1].locations[1]
             /\ StampedNow(hist.fresh)
             /\ recent_locations # <<>>
             /\ Last(recent_locations) = hist.fresh
    /\ (Answered("list") /\ hist.fresh # NoLoc)
          => /\ resp[1].locations # <<>>
             /\ Last(resp[1].locations) = hist.fresh
    /\ (Answered("latest") /\ hist.fresh # NoLoc)
          => /\ resp[1].code = 200
             /\ resp[1].locations = <<hist.fresh>>

\* C4 witness: latest() answers right after a successful submit on a store
\* that was at the cap.
C4_Witness ==
    /\ Answered("latest") /\ hist.fresh # NoLoc
    /\ hist.before >= max_locations

\* C5 (SeqSpec): a submit whose body lacks a required field is answered 400
\* in the step it arrives, and that step changes neither the store nor the
\* file nor the clock and starts no thread.
C5_RejectChangesNothing ==
    [][\A t \in Handlers :
          /\ (pc[t] = "idle" /\ pc'[t] = "rl_load") => ~Lacks(loc'[t])
          /\ (pc[t] = "idle" /\ pc'[t] = "done" /\ resp'[t].op = "submit"
                /\ Lacks(resp'[t].locations[1]))
                => /\ resp'[t].code = 400
                   /\ recent_locations' = recent_locations
                   /\ file' = file
                   /\ clock' = clock
                   /\ \A u \in Threads \ {t} : pc'[u] = pc[u]]_vars

\* C5 witness: a body without latitude was answered 400 on a non-empty store.
C5_Witness ==
    /\ Answered("submit") /\ resp[1].code = 400
    /\ "latitude" \notin DOMAIN resp[1].locations[1]
    /\ "longitude" \in DOMAIN resp[1].locations[1]
    /\ recent_locations # <<>>

\* C6 (SeqSpec): latest() answers 404 exactly when the store is empty and
\* otherwise the last element of the store; after one successful submit on
\* an empty store it answers that fix.
C6_LatestOrNotFound ==
    Answered("latest")
        => /\ resp[1].code = 404 <=> recent_locations = <<>>
           /\ recent_locations # <<>>
                 => resp[1].code = 200 /\ resp[1].locations = <<Last(recent_locations)>>
           /\ (hist.fresh # NoLoc /\ hist.before = 0)
                 => resp[1].locations = <<hist.fresh>> /\ Len(recent_locations) = 1

\* C6 witness: latest() answers the fix of the one submit made on an empty store.
C6_Witness ==
    /\ Answered("latest") /\ resp[1].code = 200
    /\ hist.fresh # NoLoc /\ hist.before = 0

\* Every thread of the service is at rest.
Quiet == \A t \in Threads : pc[t] \in {"idle", "done"}

\* C7 (SeqSpec): once clear() has returned and every persist has finished,
\* the store is empty and the file holds the empty array.
C7_ClearReachesFile ==
    (hist.cleared /\ Quiet)
        => /\ recent_locations = <<>>
           /\ file = FileOf(Serialize(<<>>))

\* The number of fixes the document on disk shows.
RenderedCount == Cardinality(FixMarkers(output_file))

\* What get_locations_from_file answers on the file as it is: the file is
\* there and its text is a JSON array.
FileReadable == file.exists /\ Parses(file.data)

\* C8 (ViewSpec): fetch() answers the server's sequence when the server
\* answers 200, empty or not, without reading the file; otherwise the
\* content of the file; and NoData exactly when the server failed and the
\* file is missing or unreadable.
C8_FetchFallsBack ==
    [][/\ (vpc = "gm_server" /\ vpc' # vpc /\ status_code' = 200)
            => /\ gm_locations' = Some(recent_locations)
               /\ vpc' = "gm_save"
       /\ (vpc = "gm_server" /\ status_code' # 200 /\ vpc' # vpc)
            => /\ gm_locations' = None
               /\ vpc' = "gm_file"
       /\ (vpc = "gm_file" /\ vpc' # vpc /\ FileReadable)
            => /\ gm_locations' = Some(Parse(file.data))
               /\ vpc' = "gm_save"
       /\ (vpc = "gm_file" /\ vpc' # vpc /\ ~FileReadable)
            => /\ vpc' \in {"exit", "sleep"}
               /\ output_file' = output_file
       /\ (vpc = "gm_server" /\ vpc' # vpc)
            => vpc' \in {"gm_save", "gm_file"}
       /\ (vpc = "sleep" /\ vpc' = "gm_server" /\ status_code' = 200)
            => tick_locations' = Some(recent_locations)
       /\ (vpc = "tk_file" /\ vpc' = "gm_server")
            => FileReadable /\ tick_locations' = Some(Parse(file.data))]_vars

\* C8 witness: the server answered 200 with the empty sequence while the
\* file holds fixes, and fetch() answered the empty sequence.
C8_Witness ==
    /\ vpc = "gm_save" /\ status_code = 200
    /\ gm_locations = Some(<<>>)
    /\ FileReadable /\ Parse(file.data) # <<>>

\* C9 (ViewSpec): once a document was rendered, a tick writes it again only
\* when the count it fetched differs from the count last rendered.
C9_RerenderOnlyOnChange ==
    (vpc = "gm_save" /\ vret = "tick" /\ output_file.written)
        => Len(tick_locations.list) # RenderedCount

\* C10 (ViewSpec): once a document was rendered, a tick that finds the
\* server's count different from the count last rendered decides (line 188)
\* to regenerate the document.
C10_RerenderOnEveryChange ==
    (vpc = "sleep" /\ output_file.written /\ Len(recent_locations) # RenderedCount)
        => UpdateDetected(Some(recent_locations))

\* C11 (SeqSpec): every firing of the periodic thread writes the store to the
\* file: once it has fired, with no request since and every thread at rest,
\* the file holds the store, whether or not the store exceeded the cap.
C11_TimerPersists ==
    (hist.fired /\ Quiet)
        => file = FileOf(Serialize(recent_locations))

\* C12 (SeqSpec): status() answers the length of the store as its count and,
\* as its latest timestamp, the client-supplied timestamp of the last fix of
\* the store, or none exactly when the store is empty; neither of its steps
\* changes the store or the file.
C12_StatusConsistent ==
    [][\A t \in Handlers :
          /\ (pc[t] = "idle" /\ pc'[t] = "st_time")
                => recent_locations' = recent_locations /\ file' = file
          /\ (pc[t] = "st_time" /\ pc'[t] = "done")
                => /\ resp'[t].op = "status" /\ resp'[t].code = 200
                   /\ resp'[t].total = Len(recent_locations)
                   /\ resp'[t].time = "None" <=> recent_locations = <<>>
                   /\ recent_locations # <<>>
                         => resp'[t].time = Last(recent_locations)["timestamp"]
                   /\ recent_locations' = recent_locations /\ file' = file]_vars

\* C12 witness: status() answers after a submit of this run on a store that
\* was at the cap: the count is the cap and the timestamp the client's.
C12_Witness ==
    /\ Answered("status") /\ resp[1].total = max_locations
    /\ hist.fresh # NoLoc /\ hist.before >= max_locations
    /\ resp[1].time = hist.fresh["timestamp"]
    /\ resp[1].time # hist.fresh["server_timestamp"]

\* The fix is in what get_locations_from_file reads from the file.
InFile(f) ==
    /\ FileReadable
    /\ \E i \in 1 .. Len(Parse(file.data)) : Parse(file.data)[i] = f

\* C13 (FaultSpec): a failing write of the file changes neither the store
\* nor the answer: no step of save_locations changes the store; a submit with
\* numeric coordinates answers 200 with its fix last in the store; clear()
\* answers 200 on an empty store; list(), latest() and status() answer from
\* the store, whether or not the disk accepts writes.
C13_WriteFailureSwallowed ==
    [][\A t \in Threads :
          /\ (pc[t] \in {"sl_open", "sl_dump", "sl_close"} /\ pc'[t] # pc[t])
                => /\ recent_locations' = recent_locations
                   /\ pc'[t] \in {"sl_dump", "sl_close", ret[t]}
          /\ (pc[t] # "done" /\ pc'[t] = "done" /\ resp'[t].op = "submit"
                /\ resp'[t].code # 400
                /\ IsNumber(resp'[t].locations[1]["latitude"])
                /\ IsNumber(resp'[t].locations[1]["longitude"]))
                => /\ resp'[t].code = 200
                   /\ recent_locations # <<>>
                   /\ Last(recent_locations) = resp'[t].locations[1]
                   /\ resp'[t].total = Len(recent_locations)
          /\ (pc[t] # "done" /\ pc'[t] = "done" /\ resp'[t].op = "clear")
                => resp'[t].code = 200 /\ recent_locations = <<>>
          /\ (pc[t] # "done" /\ pc'[t] = "done" /\ resp'[t].op = "list")
                => /\ resp'[t].code = 200
                   /\ resp'[t].locations = recent_locations
                   /\ resp'[t].total = Len(recent_locations)
          /\ (pc[t] # "done" /\ pc'[t] = "done" /\ resp'[t].op = "latest")
                => IF recent_locations = <<>> THEN resp'[t].code = 404
                   ELSE /\ resp'[t].code = 200
                        /\ resp'[t].locations = <<Last(recent_locations)>>
          /\ (pc[t] # "done" /\ pc'[t] = "done" /\ resp'[t].op = "status")
                => /\ resp'[t].code = 200
                   /\ resp'[t].total = Len(recent_locations)]_vars

\* C13 witness: the disk stopped accepting writes, a submit answered 200 with
\* its fix in the store, every save_locations has returned, and the fix is
\* not in the file.
C13_Witness ==
    /\ ~disk_ok
    /\ Answered("submit") /\ resp[1].code = 200
    /\ InStore(resp[1].locations[1])
    /\ \A w \in Workers : pc[w] = "idle"
    /\ ~InFile(resp[1].locations[1])

\* The fields of a fix.
FixFields == {"latitude", "longitude", "timestamp", "accuracy", "server_timestamp"}

\* Two sequences of fixes are the same element by element, field by field.
SameFixes(a, b) ==
    /\ Len(a) = Len(b)
    /\ \A i \in 1 .. Len(a) : \A k \in FixFields :
          /\ k \in DOMAIN a[i] <=> k \in DOMAIN b[i]
          /\ k \in DOMAIN a[i] => a[i][k] = b[i][k]

\* C14 (ViewSpec): when a persist closes the file it opened, what the
\* viewer's file path loads from it is the store that was persisted, element
\* by element and field by field; and what generate_map loads from the file
\* of a service at rest is the store.
C14_FileRoundTrip ==
    [][/\ \A t \in Threads :
            (pc[t] = "sl_close" /\ pc'[t] # "sl_close")
                => /\ ~get_locations_from_file(file').none
                   /\ SameFixes(get_locations_from_file(file').list, recent_locations)
       /\ (vpc = "gm_file" /\ vpc' = "gm_save" /\ Quiet)
            => /\ ~gm_locations'.none
               /\ SameFixes(gm_locations'.list, recent_locations)]_vars

\* C14 witness: the server did not answer, and generate_map loaded from the
\* file two fixes, the last one submitted in this run with its accuracy and
\* its server_timestamp.
C14_Witness ==
    /\ vpc = "gm_save" /\ status_code = Unavailable /\ Quiet
    /\ Len(gm_locations.list) = 2
    /\ "accuracy" \in DOMAIN Last(gm_locations.list)
    /\ Last(gm_locations.list)["server_timestamp"] = IsoFormat(clock)
    /\ clock > 0
    /\ gm_locations.list = recent_locations

\* The three kinds of fix marker.
StartMarker == [color |-> "green", icon |-> "play"]
CurrentMarker == [color |-> "red", icon |-> "stop"]
IntermediateMarker == [color |-> "blue", icon |-> "record"]

\* generate_map saves the document of the fixes it holds.
Renders == vpc = "gm_save" /\ vpc' # "gm_save"

\* C15 as stated (ViewSpec): the document has a path exactly when there is
\* more than one fix, one fix marker per fix, the first fix marked start,
\* the last fix marked current and every other fix intermediate.
C15_MarkersAsStated ==
    [][Renders =>
          LET n == Len(gm_locations.list)
              d == output_file'
          IN  /\ d.polyline <=> n > 1
              /\ FixMarkers(d) = 1 .. n
              /\ n >= 1 => d.markers[1] = StartMarker
              /\ n >= 1 => d.markers[n] = CurrentMarker
              /\ \A i \in 2 .. (n - 1) : d.markers[i] = IntermediateMarker]_vars

\* C15 amended (ViewSpec): the document has a path exactly when there is
\* more than one fix and one fix marker per fix; the first fix is marked
\* start, the last fix is marked current when it is not also the first, and
\* every other fix intermediate; for two fixes the document has a path and
\* two distinct fix markers, start and current.
C15_MarkersByPosition ==
    [][Renders =>
          LET n == Len(gm_locations.list)
              d == output_file'
          IN  /\ d.written
              /\ d.polyline <=> n > 1
              /\ FixMarkers(d) = 1 .. n
              /\ n >= 1 => d.markers[1] = StartMarker
              /\ n >= 2 => d.markers[n] = CurrentMarker
              /\ \A i \in 2 .. (n - 1) : d.markers[i] = IntermediateMarker
              /\ n = 2 => /\ d.polyline
                          /\ Cardinality(FixMarkers(d)) = 2
                          /\ d.markers[1] # d.markers[2]]_vars

\* C15 witness: a document of three fixes was saved, with a path and the
\* markers start, intermediate, current.
C15_Witness ==
    /\ output_file.written /\ output_file.polyline
    /\ RenderedCount = 3
    /\ output_file.markers[1] = StartMarker
    /\ output_file.markers[2] = IntermediateMarker
    /\ output_file.markers[3] = CurrentMarker

\* C16 (SeqSpec): what list() and status() answer never holds more than
\* max_locations fixes, from the start of the service on.
C16_StoreWithinCap ==
    /\ Answered("list")
          => /\ Len(resp[1].locations) <= max_locations
             /\ resp[1].total <= max_locations
    /\ Answered("status") => resp[1].total <= max_locations

\* C17 (SeqSpec): after a successful submit, once no request is under way
\* and every persist that was started has finished, the file holds the
\* store, in whatever order the persists ran.
C17_FileConverges ==
    (Quiet /\ hist.acked # {})
        => file = FileOf(Serialize(recent_locations))

\* C18 (SeqSpec): a submit that answered 500 left its fix neither in the
\* store nor, by a persist it started, in the file.
C18_FailedSubmitLeavesNoTrace ==
    (Answered("submit") /\ resp[1].code = 500)
        => /\ ~InStore(resp[1].locations[1])
           /\ ~InFile(resp[1].locations[1])

\* C19 (TimerSpec): once clear() has returned, and as long as no fix was
\* appended since, list() answers no fix: nothing that was in the store
\* before the clear comes back.
C19_ClearIsNotUndone ==
    (Answered("list") /\ hist.cleared)
        => resp[1].locations = <<>>

\* C20 (ViewSpec): when the fetch of generate_map finds neither the server
\* nor a readable file, the step that ends the call leaves the document, the
\* browser and last_location_count as they were; so does a tick that decides
\* not to render.
C20_NoDataNoEffect ==
    [][/\ (vpc = "gm_file" /\ vpc' # vpc /\ ~FileReadable)
            => /\ vpc' \in {"exit", "sleep"}
               /\ output_file' = output_file
               /\ opened' = opened
               /\ last_location_count' = last_location_count
       /\ (vpc \in {"sleep", "tk_file"} /\ vpc' = "sleep")
            => /\ output_file' = output_file
               /\ opened' = opened
               /\ last_location_count' = last_location_count]_vars

====
